---- MODULE Spec2Model ----
(***************************************************************************)
(* Live View tab controller of the video-mode dashboard                    *)
(* (live_view_tab_controller.py) together with the collaborators it drives:*)
(* the data acquirer (lifecycle, parameters, background acquisition loop)  *)
(* and the data registry (versioned live key).                             *)
(*                                                                         *)
(* Strings whose length or case matters (status words, badge text, error   *)
(* text) are sequences of one-character strings, so that upper() and the   *)
(* [:100] slice are computed and not assumed.                              *)
(***************************************************************************)
EXTENDS Integers, Sequences, FiniteSets, TLC

(***************************************************************************)
(* Bounds of the model                                                     *)
(***************************************************************************)
\* longest error message the failing acquisition pass can carry
MaxErrLen == 97
\* highest version the live registry key is driven to
MaxVersion == 2
\* most widget entries in one parameter batch (all components together)
MaxEntries == 3
\* largest parameter value a widget can send
MaxValue == 2

(***************************************************************************)
(* Program constants                                                       *)
(***************************************************************************)
\* status_text = status_text[:100]
BadgeLimit == 100

TOGGLE_ACQ_BUTTON_ID_SUFFIX == "toggle-acq-button"
MAIN_STATUS_ALERT_ID == "main-status-alert"
COMPONENT_ID == "live-view-tab-controller"
LIVE_DATA_KEY == "live"

(***************************************************************************)
(* Text                                                                    *)
(***************************************************************************)
S_RUNNING == <<"R","U","N","N","I","N","G">>
S_STOPPED == <<"S","T","O","P","P","E","D">>
S_ERROR   == <<"E","R","R","O","R">>
s_running == <<"r","u","n","n","i","n","g">>
s_stopped == <<"s","t","o","p","p","e","d">>
s_error   == <<"e","r","r","o","r">>
s_unknown == <<"u","n","k","n","o","w","n">>

\* str.upper() on one character of the status alphabet
UpperChar(c) ==
    CASE c = "r" -> "R" [] c = "u" -> "U" [] c = "n" -> "N" [] c = "i" -> "I"
      [] c = "g" -> "G" [] c = "s" -> "S" [] c = "t" -> "T" [] c = "o" -> "O"
      [] c = "p" -> "P" [] c = "e" -> "E" [] c = "d" -> "D" [] c = "k" -> "K"
      [] c = "w" -> "W" [] OTHER -> c

\* str.upper()
Upper(s) == [i \in 1..Len(s) |-> UpperChar(s[i])]

\* s[:n]
Slice(s, n) == IF Len(s) <= n THEN s ELSE SubSeq(s, 1, n)

\* an error message of n characters
Message(n) == [i \in 1..n |-> "x"]

\* error_detail as the acquirer reports it: None, or a message
NoError == [present |-> FALSE, text |-> <<>>]
ErrorOf(n) == [present |-> TRUE, text |-> Message(n)]

\* lengths of the messages a failing pass may carry: empty, the longest that
\* fits the badge ("ERROR: " takes 7 characters), and longer than fits
ErrLens == {0, BadgeLimit - 7, MaxErrLen}
ErrorDetails == {NoError} \cup {ErrorOf(n) : n \in ErrLens}

(***************************************************************************)
(* Identifiers of the callback inputs                                      *)
(***************************************************************************)
\* BaseComponent._get_id in its pattern-matching form: {"type", "index"}
GetIdDict(suffix) ==
    [repr |-> "dict", type |-> COMPONENT_ID, index |-> suffix, text |-> <<>>]

\* BaseComponent._get_id in its plain string form
GetIdStr(suffix) ==
    [repr |-> "str", type |-> "", index |-> "", text |-> <<COMPONENT_ID, suffix>>]

\* the orchestrator's status alert, the callback's second Input
StatusAlertId ==
    [repr |-> "dict", type |-> "video-mode", index |-> MAIN_STATUS_ALERT_ID,
     text |-> <<>>]

\* ctx.triggered_id when nothing is recognised as the trigger
NoTriggerId == [repr |-> "none", type |-> "", index |-> "", text |-> <<>>]

\* what ctx.triggered_id can be for the toggle/status callback
TriggeredIds ==
    {GetIdDict(TOGGLE_ACQ_BUTTON_ID_SUFFIX), GetIdStr(TOGGLE_ACQ_BUTTON_ID_SUFFIX),
     StatusAlertId, NoTriggerId}

(***************************************************************************)
(* handle_acquisition_control_and_status_update: the local computations    *)
(***************************************************************************)
\* variant: any pattern-matching id counts as the button
IsButtonClick_AnyDict(triggered_input_id_obj) ==
    triggered_input_id_obj.repr \in {"dict", "str"}

\* is_button_click, lines 232-243
IsButtonClick(triggered_input_id_obj) ==
    IF triggered_input_id_obj.repr = "dict"
    THEN triggered_input_id_obj.index = TOGGLE_ACQ_BUTTON_ID_SUFFIX
    ELSE IF triggered_input_id_obj.repr = "str"
         THEN GetIdStr(TOGGLE_ACQ_BUTTON_ID_SUFFIX).text = triggered_input_id_obj.text
         ELSE FALSE

\* variant: upper() is missing
CurrentStatus_NoUpper(acquirer_state) ==
    IF acquirer_state.has_status THEN acquirer_state.status ELSE s_unknown

\* current_status = acquirer_state.get("status", "unknown").upper()
CurrentStatus(acquirer_state) ==
    Upper(IF acquirer_state.has_status THEN acquirer_state.status ELSE s_unknown)

\* variant: the status is compared with the lower-case word
ClickCall_LowerCase(current_status) ==
    IF current_status = s_running THEN "stop_acquisition" ELSE "start_acquisition"

\* the lifecycle method the click branch calls, lines 259-272
ClickCall(current_status) ==
    IF current_status = S_RUNNING THEN "stop_acquisition" ELSE "start_acquisition"

\* the four outputs of the click branch, lines 265-266 and 273-274
ClickOutputs(current_status) ==
    IF current_status = S_RUNNING
    THEN [button_text |-> "Start Acquisition", button_color |-> "success",
          status_text |-> S_STOPPED, status_color |-> "secondary"]
    ELSE [button_text |-> "Stop Acquisition", button_color |-> "danger",
          status_text |-> S_RUNNING, status_color |-> "success"]

\* variant: the slice to 100 characters is missing
ErrorStatusText_NoSlice(error_details) ==
    S_ERROR \o (IF error_details.present /\ error_details.text # <<>>
                THEN <<":", " ">> \o error_details.text
                ELSE <<>>)

\* status_text of the ERROR branch, lines 292-295
ErrorStatusText(error_details) ==
    Slice(S_ERROR \o (IF error_details.present /\ error_details.text # <<>>
                      THEN <<":", " ">> \o error_details.text
                      ELSE <<>>),
          BadgeLimit)

\* variant: the ERROR branch is missing, ERROR falls through to the last one
ReflectOutputs_NoErrorBranch(current_status, error_details) ==
    IF current_status = S_RUNNING
    THEN [button_text |-> "Stop Acquisition", button_color |-> "danger",
          status_text |-> S_RUNNING, status_color |-> "success"]
    ELSE IF current_status = S_STOPPED
    THEN [button_text |-> "Start Acquisition", button_color |-> "success",
          status_text |-> S_STOPPED, status_color |-> "secondary"]
    ELSE [button_text |-> "Start Acquisition", button_color |-> "warning",
          status_text |-> current_status, status_color |-> "warning"]

\* the four outputs of the non-click branch, lines 276-299
ReflectOutputs(current_status, error_details) ==
    IF current_status = S_RUNNING
    THEN [button_text |-> "Stop Acquisition", button_color |-> "danger",
          status_text |-> S_RUNNING, status_color |-> "success"]
    ELSE IF current_status = S_STOPPED
    THEN [button_text |-> "Start Acquisition", button_color |-> "success",
          status_text |-> S_STOPPED, status_color |-> "secondary"]
    ELSE IF current_status = S_ERROR
    THEN [button_text |-> "Start Acquisition", button_color |-> "success",
          status_text |-> ErrorStatusText(error_details),
          status_color |-> "danger"]
    ELSE [button_text |-> "Start Acquisition", button_color |-> "warning",
          status_text |-> current_status, status_color |-> "warning"]

\* nothing returned: the handler has not reached its return statement
NoOutputs ==
    [button_text |-> "", button_color |-> "", status_text |-> <<>>,
     status_color |-> ""]

(***************************************************************************)
(* Dictionaries                                                            *)
(***************************************************************************)
EmptyDict == [k \in {} |-> 0]

\* d[k] = v
DictSet(d, k, v) == [x \in (DOMAIN d) \cup {k} |-> IF x = k THEN v ELSE d[x]]

\* dict.update
DictUpdate(d, u) ==
    [x \in (DOMAIN d) \cup (DOMAIN u) |-> IF x \in DOMAIN u THEN u[x] ELSE d[x]]

(***************************************************************************)
(* handle_acquirer_parameter_update: the local computations                *)
(***************************************************************************)
\* all_acquirer_components, in the order get_components() lists them
Components == <<"x_axis", "y_axis">>

\* the "id" State of one widget: a pattern-matching id, or something else
WidgetId(name) == [is_dict |-> TRUE, has_index |-> TRUE, index |-> name]
IdWithoutIndex == [is_dict |-> TRUE, has_index |-> FALSE, index |-> ""]
IdNotADict == [is_dict |-> FALSE, has_index |-> FALSE, index |-> ""]

\* the for loop of _parse_component_parameters from position idx on,
\* lines 357-373 (idx counts from 1 here, from 0 in the code)
RECURSIVE ParseLoop(_, _, _, _)
ParseLoop(values, ids, idx, current_type_params) ==
    IF idx > Len(ids) THEN current_type_params
    ELSE LET param_id_dict == ids[idx] IN
         IF param_id_dict.is_dict /\ param_id_dict.has_index
         THEN IF idx <= Len(values)
              THEN ParseLoop(values, ids, idx + 1,
                       DictSet(current_type_params, param_id_dict.index, values[idx]))
              ELSE ParseLoop(values, ids, idx + 1, current_type_params)
         ELSE ParseLoop(values, ids, idx + 1, current_type_params)

\* variant: one malformed id makes the whole batch of the component be dropped
ParseComponentParameters_AbortOnMalformed(values, ids) ==
    IF values = <<>> \/ ids = <<>> THEN EmptyDict
    ELSE IF \E i \in 1..Len(ids) : ~(ids[i].is_dict /\ ids[i].has_index)
    THEN EmptyDict
    ELSE ParseLoop(values, ids, 1, EmptyDict)

\* _parse_component_parameters, lines 347-373
ParseComponentParameters(values, ids) ==
    IF values = <<>> \/ ids = <<>> THEN EmptyDict
    ELSE ParseLoop(values, ids, 1, EmptyDict)

\* variant: the values and ids of the first component are read for every one
ComponentParams_FirstType(a, i) ==
    ParseComponentParameters(a.values_by_type_list[1], a.ids_by_type_list[1])

\* component_params of component i, lines 333-337
ComponentParams(a, i) ==
    ParseComponentParameters(a.values_by_type_list[i], a.ids_by_type_list[i])

\* parameters_to_update after the loop over the components, lines 330-341
ParametersToUpdate(a) ==
    LET kept == {i \in 1..Len(Components) : ComponentParams(a, i) # EmptyDict}
    IN  [c \in {Components[i] : i \in kept} |->
            ComponentParams(a, CHOOSE i \in kept : Components[i] = c)]

(***************************************************************************)
(* Inputs of the parameter callback                                        *)
(***************************************************************************)
ParamNames == {"span", "points"}
IdEntries == {WidgetId(n) : n \in ParamNames} \cup {IdWithoutIndex, IdNotADict}

\* id lists of n widgets; the layout holds no two widgets with one id
IdLists(n) ==
    {ids \in [1..n -> IdEntries] :
        \A i, j \in 1..n :
            (i # j /\ ids[i].has_index /\ ids[j].has_index)
                => ids[i].index # ids[j].index}

\* value lists sent along with n ids: one per id, or the last one missing
ValueLists(n) ==
    [1..n -> 1..MaxValue] \cup (IF n > 0 THEN [1..(n - 1) -> 1..MaxValue] ELSE {})

\* the batches of the running dashboard: each component shows its "span" widget
LiveArgs ==
    {[values_by_type_list |-> <<(<<v1>>), (<<v2>>)>>,
      ids_by_type_list |-> <<(<<WidgetId("span")>>), (<<WidgetId("span")>>)>>] :
        v1 \in 1..MaxValue, v2 \in 1..MaxValue}

\* args before the callback has run
NoArgs == [values_by_type_list |-> <<(<<>>), (<<>>)>>,
           ids_by_type_list |-> <<(<<>>), (<<>>)>>]

(***************************************************************************)
(* State                                                                   *)
(***************************************************************************)
VARIABLES
    \* data acquirer
    status,          \* "stopped", "running" or "error"
    error_detail,    \* the message of the failed pass, NoError otherwise
    parameters,      \* component id -> parameter name -> value
    needs_regen,     \* modified flag: the program is older than the parameters
    program,         \* the sweep the loop executes
    stop_requested,  \* cancellation flag of the background loop
    loop_pc,         \* "idle", "boundary", "acquire_x" or "acquire_y"
    partial,         \* the part of the frame acquired so far in this pass
    pass_config,     \* the configuration that was live when the pass began
    \* data registry, live key
    live_version,    \* 0: never written
    live_payload,
    \* UI dispatch thread
    ui_pc,           \* "idle", or "toggle_act": the toggle handler has read
    handler,         \* the handler invoked last
    triggered_id,    \* ctx.triggered_id of the toggle handler
    acquirer_state,  \* its get_latest_data() snapshot
    calls,           \* the acquirer methods the invocation has called
    raised,          \* the exception that ended the invocation, or "none"
    outputs,         \* the four values the toggle handler returned
    args,            \* *args of the parameter handler
    update_arg,      \* the mapping it passed to update_parameters
    \* orchestrator
    is_active,       \* the Live View tab is the active tab
    viewer_store     \* the store updates on_tab_activated returned

acqVars == <<status, error_detail, parameters, needs_regen, program,
             stop_requested, loop_pc, partial, pass_config>>
regVars == <<live_version, live_payload>>
toggleVars == <<triggered_id, acquirer_state, outputs>>
paramVars == <<args, update_arg>>
tabVars == <<is_active, viewer_store>>
vars == <<acqVars, regVars, ui_pc, handler, calls, raised, toggleVars,
          paramVars, tabVars>>

(***************************************************************************)
(* Data registry                                                           *)
(***************************************************************************)
None == <<>>
NoFrame == [x |-> 0, y |-> 0]

\* data_registry.get_current_version(LIVE_DATA_KEY)
GetCurrentVersion == IF live_version = 0 THEN None ELSE <<"v", live_version>>

\* str(uuid.uuid4())
Uuids == {<<"uuid", 1>>, <<"uuid", 2>>}

(***************************************************************************)
(* Data acquirer                                                           *)
(***************************************************************************)
InitialParameters == [c \in {"x_axis", "y_axis"} |-> [span |-> 1]]

\* generate_program(): the sweep as a function of the axis configuration
GenerateProgram(params) ==
    [x |-> params["x_axis"]["span"], y |-> params["y_axis"]["span"]]

\* variant: each step of the pass reads the live parameters
ProgramInUse_Live == GenerateProgram(parameters)

\* the program one step of the running pass executes
ProgramInUse == program

\* get_latest_data()
GetLatestData == [has_status |-> TRUE, status |-> status, error |-> error_detail]

\* start_acquisition()
StartAcquisition ==
    IF status = s_running
    THEN /\ raised' = "InvalidStateError"
         /\ UNCHANGED acqVars
    ELSE /\ raised' = "none"
         /\ status' = s_running
         /\ error_detail' = NoError
         /\ stop_requested' = FALSE
         /\ program' = IF needs_regen THEN GenerateProgram(parameters) ELSE program
         /\ needs_regen' = FALSE
         /\ loop_pc' = "boundary"
         /\ UNCHANGED <<parameters, partial, pass_config>>

\* variant: STOPPED is reported at once, whatever the status was
StopAcquisition_Unconditional ==
    /\ raised' = "none"
    /\ status' = s_stopped
    /\ stop_requested' = TRUE
    /\ UNCHANGED <<error_detail, parameters, needs_regen, program, loop_pc,
                   partial, pass_config>>

\* stop_acquisition()
StopAcquisition ==
    /\ raised' = "none"
    /\ stop_requested' = (IF status = s_running THEN TRUE ELSE stop_requested)
    /\ UNCHANGED <<status, error_detail, parameters, needs_regen, program,
                   loop_pc, partial, pass_config>>

\* update_parameters(updates)
UpdateParameters(updates) ==
    LET new == [c \in DOMAIN parameters |->
                  IF c \in DOMAIN updates
                  THEN DictUpdate(parameters[c], updates[c])
                  ELSE parameters[c]]
    IN  /\ parameters' = new
        /\ needs_regen' = (needs_regen \/ new # parameters)
        /\ UNCHANGED <<status, error_detail, program, stop_requested, loop_pc,
                       partial, pass_config>>

(***************************************************************************)
(* Background acquisition loop                                             *)
(***************************************************************************)
uiVars == <<ui_pc, handler, calls, raised, toggleVars, paramVars, tabVars>>

\* cancellation checkpoint between passes: the stop signal is acknowledged
LoopAcknowledgeStop ==
    /\ loop_pc = "boundary"
    /\ stop_requested
    /\ status' = s_stopped
    /\ stop_requested' = FALSE
    /\ loop_pc' = "idle"
    /\ pass_config' = NoFrame
    /\ UNCHANGED <<error_detail, parameters, needs_regen, program, partial>>
    /\ UNCHANGED <<regVars, uiVars>>

\* iteration boundary: pick up the pending parameter change, start a pass
LoopBeginPass ==
    /\ loop_pc = "boundary"
    /\ ~stop_requested
    /\ live_version < MaxVersion
    /\ program' = IF needs_regen THEN GenerateProgram(parameters) ELSE program
    /\ needs_regen' = FALSE
    /\ pass_config' = GenerateProgram(parameters)
    /\ loop_pc' = "acquire_x"
    /\ UNCHANGED <<status, error_detail, parameters, stop_requested, partial>>
    /\ UNCHANGED <<regVars, uiVars>>

\* first half of the pass: the x sweep
LoopAcquireX ==
    /\ loop_pc = "acquire_x"
    /\ partial' = ProgramInUse.x
    /\ loop_pc' = "acquire_y"
    /\ UNCHANGED <<status, error_detail, parameters, needs_regen, program,
                   stop_requested, pass_config>>
    /\ UNCHANGED <<regVars, uiVars>>

\* second half of the pass, then the frame is written under the live key
LoopAcquireY ==
    /\ loop_pc = "acquire_y"
    /\ live_payload' = [x |-> partial, y |-> ProgramInUse.y]
    /\ live_version' = live_version + 1
    /\ partial' = 0
    /\ loop_pc' = "boundary"
    /\ UNCHANGED <<status, error_detail, parameters, needs_regen, program,
                   stop_requested, pass_config>>
    /\ UNCHANGED uiVars

\* the pass raises: ERROR with the message, the loop halts
LoopPassFails(e) ==
    /\ loop_pc \in {"acquire_x", "acquire_y"}
    /\ status' = s_error
    /\ error_detail' = e
    /\ loop_pc' = "idle"
    /\ partial' = 0
    /\ pass_config' = NoFrame
    /\ UNCHANGED <<parameters, needs_regen, program, stop_requested>>
    /\ UNCHANGED <<regVars, uiVars>>

(***************************************************************************)
(* UI handlers (dispatched one at a time)                                  *)
(***************************************************************************)
NoSnapshot == [has_status |-> FALSE, status |-> <<>>, error |-> NoError]

\* handle_acquisition_control_and_status_update up to the snapshot,
\* lines 232-247
ToggleRead(t) ==
    /\ ui_pc = "idle"
    /\ ui_pc' = "toggle_act"
    /\ handler' = "toggle"
    /\ triggered_id' = t
    /\ acquirer_state' = GetLatestData
    /\ calls' = <<>>
    /\ raised' = "none"
    /\ args' = NoArgs
    /\ update_arg' = EmptyDict
    /\ outputs' = NoOutputs
    /\ UNCHANGED <<tabVars, acqVars, regVars>>

\* ... and from the branch on is_button_click to the return, lines 254-301
ToggleAct ==
    /\ ui_pc = "toggle_act"
    /\ ui_pc' = "idle"
    /\ LET current_status == CurrentStatus(acquirer_state)
           error_details == acquirer_state.error
       IN  IF IsButtonClick(triggered_id)
           THEN /\ calls' = Append(calls, ClickCall(current_status))
                /\ IF ClickCall(current_status) = "stop_acquisition"
                   THEN StopAcquisition
                   ELSE StartAcquisition
                /\ outputs' = IF raised' = "none"
                              THEN ClickOutputs(current_status)
                              ELSE NoOutputs
           ELSE /\ outputs' = ReflectOutputs(current_status, error_details)
                /\ UNCHANGED <<calls, raised, acqVars>>
    /\ UNCHANGED <<handler, triggered_id, acquirer_state, paramVars, tabVars,
                   regVars>>

\* handle_acquirer_parameter_update, lines 325-345
HandleAcquirerParameterUpdate(a) ==
    /\ ui_pc = "idle"
    /\ handler' = "params"
    /\ args' = a
    /\ update_arg' = ParametersToUpdate(a)
    /\ calls' = <<"update_parameters">>
    /\ raised' = "none"
    /\ UpdateParameters(ParametersToUpdate(a))
    /\ triggered_id' = NoTriggerId
    /\ acquirer_state' = NoSnapshot
    /\ outputs' = NoOutputs
    /\ UNCHANGED <<ui_pc, tabVars, regVars>>

NoStore == [data |-> [key |-> "", version |-> None], ui_state |-> {"unset"},
            layout_config |-> {"unset"}]

\* variant: a missing version is passed on as it is
CurrentLiveVersion_NoPlaceholder(placeholder) == GetCurrentVersion

\* current_live_version, lines 154-163
CurrentLiveVersion(placeholder) ==
    IF GetCurrentVersion = None THEN placeholder ELSE GetCurrentVersion

\* the updates on_tab_activated returns, lines 165-175
TabUpdates(placeholder) ==
    [data |-> [key |-> LIVE_DATA_KEY, version |-> CurrentLiveVersion(placeholder)],
     ui_state |-> {}, layout_config |-> {}]

\* on_tab_activated, lines 143-175; the orchestrator calls it when the tab
\* becomes the active one
OnTabActivated(placeholder) ==
    /\ ui_pc = "idle"
    /\ ~is_active
    /\ is_active' = TRUE
    /\ handler' = "activate"
    /\ viewer_store' = TabUpdates(placeholder)
    /\ calls' = <<>>
    /\ raised' = "none"
    /\ triggered_id' = NoTriggerId
    /\ acquirer_state' = NoSnapshot
    /\ args' = NoArgs
    /\ update_arg' = EmptyDict
    /\ outputs' = NoOutputs
    /\ UNCHANGED <<ui_pc, acqVars, regVars>>

\* variant: leaving the tab stops the acquisition
OnTabDeactivated_StopsAcquisition ==
    /\ ui_pc = "idle"
    /\ is_active
    /\ is_active' = FALSE
    /\ handler' = "deactivate"
    /\ calls' = <<"stop_acquisition">>
    /\ StopAcquisition
    /\ triggered_id' = NoTriggerId
    /\ acquirer_state' = NoSnapshot
    /\ args' = NoArgs
    /\ update_arg' = EmptyDict
    /\ outputs' = NoOutputs
    /\ UNCHANGED <<ui_pc, viewer_store, regVars>>

\* on_tab_deactivated, lines 177-180
OnTabDeactivated ==
    /\ ui_pc = "idle"
    /\ is_active
    /\ is_active' = FALSE
    /\ handler' = "deactivate"
    /\ calls' = <<>>
    /\ raised' = "none"
    /\ triggered_id' = NoTriggerId
    /\ acquirer_state' = NoSnapshot
    /\ args' = NoArgs
    /\ update_arg' = EmptyDict
    /\ outputs' = NoOutputs
    /\ UNCHANGED <<ui_pc, viewer_store, acqVars, regVars>>

(***************************************************************************)
(* Specifications                                                          *)
(***************************************************************************)
InitWith(a) ==
    /\ status = s_stopped
    /\ error_detail = NoError
    /\ parameters = InitialParameters
    /\ needs_regen = FALSE
    /\ program = GenerateProgram(InitialParameters)
    /\ stop_requested = FALSE
    /\ loop_pc = "idle"
    /\ partial = 0
    /\ pass_config = NoFrame
    /\ live_version = 0
    /\ live_payload = NoFrame
    /\ ui_pc = "idle"
    /\ handler = "none"
    /\ triggered_id = NoTriggerId
    /\ acquirer_state = NoSnapshot
    /\ calls = <<>>
    /\ raised = "none"
    /\ outputs = NoOutputs
    /\ args = a
    /\ update_arg = EmptyDict
    /\ is_active = FALSE
    /\ viewer_store = NoStore

Init == InitWith(NoArgs)

\* the steps of the background loop
LoopStep ==
    \/ LoopAcknowledgeStop
    \/ LoopBeginPass
    \/ LoopAcquireX
    \/ LoopAcquireY
    \/ \E e \in ErrorDetails : LoopPassFails(e)

\* the toggle/status callback: a click, the status signal, or no trigger id
ToggleStep ==
    \/ \E t \in TriggeredIds : ToggleRead(t)
    \/ ToggleAct

\* acquisition lifecycle and tab switches
Next ==
    \/ ToggleStep
    \/ \E u \in Uuids : OnTabActivated(u)
    \/ OnTabDeactivated
    \/ LoopStep

Spec == Init /\ [][Next]_vars

\* acquisition lifecycle and live reconfiguration
NextConfig ==
    \/ ToggleStep
    \/ \E a \in LiveArgs : HandleAcquirerParameterUpdate(a)
    \/ LoopStep

SpecConfig == Init /\ [][NextConfig]_vars

\* the parameter handler applied once to every batch of at most MaxEntries
\* widgets over the components
InitParams ==
    \E n1 \in 0..MaxEntries : \E n2 \in 0..(MaxEntries - n1) :
        \E i1 \in IdLists(n1), i2 \in IdLists(n2) :
            \E v1 \in ValueLists(n1), v2 \in ValueLists(n2) :
                InitWith([values_by_type_list |-> <<v1, v2>>,
                          ids_by_type_list |-> <<i1, i2>>])

NextParams ==
    /\ handler = "none"
    /\ HandleAcquirerParameterUpdate(args)

SpecParams == InitParams /\ [][NextParams]_vars

(***************************************************************************)
(* Properties of the toggle/status handler                                 *)
(***************************************************************************)
\* the trigger ids that denote a click on the toggle button
ToggleButtonTriggers ==
    {[repr |-> "dict", type |-> "live-view-tab-controller",
      index |-> "toggle-acq-button", text |-> <<>>],
     [repr |-> "str", type |-> "", index |-> "",
      text |-> <<"live-view-tab-controller", "toggle-acq-button">>]}

\* the toggle handler has returned (or raised)
ToggleDone == handler = "toggle" /\ ui_pc = "idle"

\* C1: an invocation triggered by a click on the toggle button makes exactly
\* one lifecycle call: stop_acquisition() when the status it read is RUNNING,
\* start_acquisition() when it read anything else; before the branch it has
\* made none.
C1_ClickMakesOneLifecycleCall ==
    /\ (handler = "toggle" /\ ui_pc = "toggle_act") => calls = <<>>
    /\ (ToggleDone /\ triggered_id \in ToggleButtonTriggers) =>
          calls = (IF acquirer_state.status = s_running
                   THEN <<"stop_acquisition">>
                   ELSE <<"start_acquisition">>)

C1_Witness ==
    /\ ToggleDone
    /\ triggered_id \in ToggleButtonTriggers
    /\ acquirer_state.status = s_running
    /\ calls = <<"stop_acquisition">>

\* a step of the toggle handler in an invocation not triggered by the button
NonClickToggleStep ==
    \/ ui_pc = "idle" /\ ui_pc' = "toggle_act"
         /\ triggered_id' \notin ToggleButtonTriggers
    \/ ui_pc = "toggle_act" /\ ui_pc' = "idle"
         /\ triggered_id \notin ToggleButtonTriggers

\* C2: invoked by anything but a click on the toggle button (the status
\* alert, or no recognised trigger id), the handler calls no method of the
\* acquirer that changes it: the call log stays empty and status, error
\* detail and parameters are after each of its steps what they were before.
C2_NonClickIsReadOnly ==
    [][NonClickToggleStep =>
          /\ calls' = <<>>
          /\ UNCHANGED <<status, error_detail, parameters, stop_requested,
                         loop_pc>>]_vars

C2_Witness ==
    /\ ToggleDone
    /\ triggered_id = StatusAlertId
    /\ acquirer_state.status = s_running
    /\ status = s_running
    /\ outputs # NoOutputs
    /\ calls = <<>>

\* C3: on a non-click trigger the four outputs follow from the status the
\* handler read: RUNNING gives "Stop Acquisition"/danger and a success badge,
\* STOPPED gives "Start Acquisition" and a secondary badge, ERROR gives
\* "Start Acquisition" and a danger badge whose text is "ERROR" followed,
\* when there is an error message, by ": " and the message as far as it fits.
C3_NonClickReflectsStatus ==
    (ToggleDone /\ triggered_id \notin ToggleButtonTriggers) =>
        /\ acquirer_state.status = s_running =>
              /\ outputs.button_text = "Stop Acquisition"
              /\ outputs.button_color = "danger"
              /\ outputs.status_text = S_RUNNING
              /\ outputs.status_color = "success"
        /\ acquirer_state.status = s_stopped =>
              /\ outputs.button_text = "Start Acquisition"
              /\ outputs.status_text = S_STOPPED
              /\ outputs.status_color = "secondary"
        /\ acquirer_state.status = s_error =>
              /\ outputs.button_text = "Start Acquisition"
              /\ outputs.status_color = "danger"
              /\ LET shown == S_ERROR \o
                              (IF acquirer_state.error.text = <<>> THEN <<>>
                               ELSE <<":", " ">> \o acquirer_state.error.text)
                     n == Len(outputs.status_text)
                 IN  /\ n <= Len(shown)
                     /\ n >= 5
                     /\ outputs.status_text = SubSeq(shown, 1, n)
                     /\ n < Len(shown) => n = 100

C3_Witness ==
    /\ ToggleDone
    /\ triggered_id \notin ToggleButtonTriggers
    /\ acquirer_state.status = s_error
    /\ Len(acquirer_state.error.text) = 93
    /\ outputs.status_text =
          <<"E", "R", "R", "O", "R", ":", " ">> \o acquirer_state.error.text
    /\ outputs.status_color = "danger"

\* C4: when the status the handler read is ERROR, the badge text it returns
\* is non-empty and at most 100 characters long, whatever the length of the
\* error detail (absent and empty included).
C4_ErrorBadgeBounded ==
    (ToggleDone /\ acquirer_state.status = s_error) =>
        /\ Len(outputs.status_text) >= 1
        /\ Len(outputs.status_text) <= 100

C4_Witness ==
    /\ ToggleDone
    /\ triggered_id = StatusAlertId
    /\ acquirer_state.status = s_error
    /\ Len(acquirer_state.error.text) > 93
    /\ Len(outputs.status_text) = 100

(***************************************************************************)
(* Properties of the acquisition lifecycle                                 *)
(***************************************************************************)
LegalTransitions ==
    {<<s_stopped, s_running>>, <<s_running, s_stopped>>,
     <<s_running, s_error>>, <<s_error, s_running>>}

\* C5: from STOPPED, under any sequence of button clicks, status triggers and
\* failing acquisition passes, the status changes only along
\* STOPPED->RUNNING, RUNNING->STOPPED, RUNNING->ERROR and ERROR->RUNNING.
C5_LegalTransitionsOnly ==
    [][status' # status => <<status, status'>> \in LegalTransitions]_vars

C5_Witness ==
    /\ ToggleDone
    /\ triggered_id \in ToggleButtonTriggers
    /\ acquirer_state.status = s_error
    /\ calls = <<"start_acquisition">>
    /\ status = s_running
    /\ error_detail = NoError

(***************************************************************************)
(* Properties of the parameter propagation handler                         *)
(***************************************************************************)
\* the parameter handler has returned
ParamsDone == handler = "params" /\ ui_pc = "idle"

\* entry i of component k is well-formed and a value arrived for it
Applies(k, i) ==
    /\ args.ids_by_type_list[k][i].is_dict
    /\ args.ids_by_type_list[k][i].has_index
    /\ i <= Len(args.values_by_type_list[k])

\* C6: a parameter entry with malformed id metadata (not a mapping, or
\* without "index") is skipped alone: every well-formed entry at position i
\* of the batch is forwarded with the value at position i, and the handler
\* ends without an exception.
C6_MalformedSkippedAlone ==
    ParamsDone =>
        /\ raised = "none"
        /\ \A k \in 1..2 : \A i \in 1..Len(args.ids_by_type_list[k]) :
              Applies(k, i) =>
                 /\ Components[k] \in DOMAIN update_arg
                 /\ args.ids_by_type_list[k][i].index
                        \in DOMAIN update_arg[Components[k]]
                 /\ update_arg[Components[k]][args.ids_by_type_list[k][i].index]
                        = args.values_by_type_list[k][i]

C6_Witness ==
    /\ ParamsDone
    /\ Len(args.ids_by_type_list[1]) = 3
    /\ ~args.ids_by_type_list[1][2].is_dict
    /\ Applies(1, 1) /\ Applies(1, 3)
    /\ args.values_by_type_list[1] = <<1, 1, 2>>
    /\ update_arg["x_axis"][args.ids_by_type_list[1][3].index] = 2

\* the (name, value) pairs component k yields
Pairs(k) ==
    {<<args.ids_by_type_list[k][i].index, args.values_by_type_list[k][i]>> :
        i \in {j \in 1..Len(args.ids_by_type_list[k]) : Applies(k, j)}}

\* C7: an invocation calls update_parameters exactly once, with a mapping in
\* which each component that yielded pairs appears under its own id with
\* exactly those pairs, and a component that yielded none is absent.
C7_GroupedByComponent ==
    ParamsDone =>
        /\ calls = <<"update_parameters">>
        /\ DOMAIN update_arg \subseteq {"x_axis", "y_axis"}
        /\ \A k \in 1..2 :
              IF Pairs(k) = {}
              THEN Components[k] \notin DOMAIN update_arg
              ELSE /\ Components[k] \in DOMAIN update_arg
                   /\ {<<n, update_arg[Components[k]][n]>> :
                          n \in DOMAIN update_arg[Components[k]]} = Pairs(k)

C7_Witness ==
    /\ ParamsDone
    /\ Pairs(1) = {}
    /\ Len(args.ids_by_type_list[1]) = 1
    /\ Pairs(2) = {<<"span", 2>>, <<"points", 1>>}
    /\ DOMAIN update_arg = {"y_axis"}
    /\ parameters["y_axis"] = [span |-> 2, points |-> 1]

(***************************************************************************)
(* Properties of the tab switches                                          *)
(***************************************************************************)
\* C8: the updates on_tab_activated returns point the viewer at the live key
\* with the registry's version of it at the time of the call, or with a
\* placeholder that is not None when the key was never written, and reset
\* the viewer's UI state and layout configuration to empty.
C8_ActivationPointsAtLiveData ==
    [][(~is_active /\ is_active') =>
          /\ viewer_store'.data.key = "live"
          /\ viewer_store'.data.version # None
          /\ live_version > 0 => viewer_store'.data.version = <<"v", live_version>>
          /\ live_version = 0 => viewer_store'.data.version[1] = "uuid"
          /\ viewer_store'.ui_state = {}
          /\ viewer_store'.layout_config = {}]_vars

C8_Witness ==
    /\ handler = "activate"
    /\ is_active
    /\ live_version = 2
    /\ viewer_store.data = [key |-> "live", version |-> <<"v", 2>>]
    /\ viewer_store.ui_state = {}

\* C9: a tab activation or deactivation calls neither start_acquisition()
\* nor stop_acquisition(), writes nothing to the registry and leaves the
\* acquirer, a RUNNING one included, as it was.
C9_TabSwitchLeavesAcquisition ==
    [][(is_active' # is_active) =>
          /\ calls' = <<>>
          /\ UNCHANGED <<acqVars, regVars>>]_vars

C9_Witness ==
    /\ handler = "deactivate"
    /\ ~is_active
    /\ viewer_store # NoStore
    /\ status = s_running
    /\ loop_pc = "acquire_y"
    /\ ~stop_requested

(***************************************************************************)
(* Properties of live reconfiguration                                      *)
(***************************************************************************)
\* C10: an update forwarded while the acquisition runs takes effect at the
\* loop's next iteration boundary: every frame written under the live key
\* was acquired, in both of its halves, with the configuration that was live
\* at the boundary where its pass began, so no frame mixes the configuration
\* before an update with the one after it.
C10_NoMixedFrame ==
    [][live_version' # live_version => live_payload' = pass_config]_vars

\* an update has changed both axes in the middle of a pass
C10_Witness ==
    /\ handler = "params"
    /\ status = s_running
    /\ loop_pc = "acquire_y"
    /\ partial = pass_config.x
    /\ GenerateProgram(parameters).x # pass_config.x
    /\ GenerateProgram(parameters).y # pass_config.y
    /\ live_version > 0
    /\ live_payload = GenerateProgram(InitialParameters)

(***************************************************************************)
(* Properties of the toggle handler running beside the loop                *)
(***************************************************************************)
\* the step in which a click invocation makes its lifecycle call and returns
ClickReturns ==
    /\ ui_pc = "toggle_act"
    /\ ui_pc' = "idle"
    /\ triggered_id \in ToggleButtonTriggers

\* C11: with the UI handlers dispatched one at a time, the toggle handler
\* calls start_acquisition() only when the acquirer is not RUNNING at the
\* moment of the call, whatever the loop did since the handler's snapshot,
\* so the call never fails with InvalidStateError.
C11_StartNeverWhileRunning ==
    [][(ClickReturns /\ calls' = <<"start_acquisition">>) =>
          /\ status # s_running
          /\ raised' = "none"
          /\ status' = s_running]_vars

\* a restart after an earlier run whose stop the loop had acknowledged
C11_Witness ==
    /\ ToggleDone
    /\ triggered_id \in ToggleButtonTriggers
    /\ acquirer_state.status = s_stopped
    /\ calls = <<"start_acquisition">>
    /\ raised = "none"
    /\ status = s_running
    /\ live_version > 0

\* C12: when a click invocation returns, the badge text it returns
\* ("STOPPED" after stop_acquisition(), "RUNNING" after start_acquisition())
\* is the acquirer's status at that moment, whatever the loop did between
\* the handler's snapshot and its call.
C12_BadgeIsStatusAtReturn ==
    [][(ClickReturns /\ raised' = "none") =>
          outputs'.status_text = Upper(status')]_vars

====
